---- MODULE Spec2Model ----
(***************************************************************************)
(* Model of the question -> SQL pipeline of the e-commerce bot:            *)
(*   backend/db/gemini_utils.py  initialize_rag_components,                *)
(*                               get_sql_from_question                     *)
(*   backend/db/run.py           the /api/ask route handler                *)
(*   backend/db/run.py           the /api/data/<table_name> route handler  *)
(*   dataloader/dataload.py      file_table_map, the upload loop,          *)
(*                               preprocess_df                             *)
(*   frontend/app.py             the session state of the Streamlit page   *)
(* Spec handles each request in one step; ThreadSpec runs                  *)
(* get_sql_from_question line by line in concurrent request threads;       *)
(* LoaderSpec is a run of dataload.py; DataSpec adds requests for table    *)
(* data to it; PreprocessSpec applies preprocess_df to the frame of one    *)
(* CSV file; UiSpec is the clicks on the two buttons of the page.          *)
(* Text is a sequence of one-character strings.  A character outside ASCII *)
(* and the backquote are written by the name of their code point           *)
(* ("U+274C", "U+0060").                                                   *)
(***************************************************************************)
EXTENDS Integers, Sequences, FiniteSets, TLC

(***************************************************************************)
(* Bounds of the model.                                                    *)
(***************************************************************************)
\* Longest document list and longest vector list found in the artifacts on
\* disk at start.
MaxDiskDocs == 3
MaxDiskVectors == 2
\* Most rows of a CSV file.
MaxRows == 2
\* Most entries of the chat history of the page.
MaxHistory == 3

(***************************************************************************)
(* Text helpers (Python str semantics).                                    *)
(***************************************************************************)
Whitespace == {" ", "\n", "\t"}

RECURSIVE LStripChars(_, _)
LStripChars(s, chars) ==
    IF s # <<>> /\ Head(s) \in chars THEN LStripChars(Tail(s), chars) ELSE s

RECURSIVE RStripChars(_, _)
RStripChars(s, chars) ==
    IF s # <<>> /\ s[Len(s)] \in chars
    THEN RStripChars(SubSeq(s, 1, Len(s) - 1), chars)
    ELSE s

\* str.strip(chars): drops from both ends every character that is in chars.
StripChars(s, chars) == RStripChars(LStripChars(s, chars), chars)

\* str.strip(): drops leading and trailing whitespace.
Strip(s) == StripChars(s, Whitespace)

\* The set of characters of a text.
CharsOf(s) == {s[i] : i \in 1..Len(s)}

\* str.startswith
StartsWith(s, p) == Len(p) =< Len(s) /\ SubSeq(s, 1, Len(p)) = p

\* sub in s
Contains(s, sub) ==
    \E o \in 0..(Len(s) - Len(sub)) : SubSeq(s, o + 1, o + Len(sub)) = sub

\* s[:n]
Prefix(s, n) == SubSeq(s, 1, IF Len(s) < n THEN Len(s) ELSE n)

\* All sequences over S of length at most n.
SeqsUpTo(S, n) == UNION {[1..m -> S] : m \in 0..n}

(***************************************************************************)
(* gemini_utils.py: configuration and the hard-coded corpus.               *)
(***************************************************************************)
Digit == <<"0", "1", "2", "3", "4", "5", "6", "7", "8", "9">>

\* The 25 knowledge base documents (gemini_utils.py lines 60-91).  Their text
\* is abstracted to 25 distinct short texts "K01" .. "K25".
knowledge_base_documents ==
    [i \in 1..25 |-> <<"K", Digit[(i \div 10) + 1], Digit[(i % 10) + 1]>>]

\* Number of occurrences of character c in text.
Count(text, c) == Cardinality({i \in 1..Len(text) : text[i] = c})

\* embedding_model.encode(text): a deterministic map from a text to a vector
\* of fixed dimension (2 here).  The sentence-transformer is external; only
\* its determinism and its fixed dimension are kept.
Encode(text) ==
    <<(Len(text) + Count(text, "2")) % 5,
      (Count(text, "1") + 2 * Count(text, "3") + 3 * Count(text, "5")
         + Count(text, "o") + 2 * Count(text, "?")) % 4>>

\* embedding_model.encode(list of texts)
EncodeAll(texts) == [i \in 1..Len(texts) |-> Encode(texts[i])]

(***************************************************************************)
(* faiss.IndexFlatL2                                                       *)
(***************************************************************************)
\* Squared Euclidean distance, the metric of IndexFlatL2.
L2(u, v) == (u[1] - v[1]) * (u[1] - v[1]) + (u[2] - v[2]) * (u[2] - v[2])

\* Stands for the distance faiss reports for a missing neighbour (FLT_MAX):
\* larger than every distance between vectors of the model.
PadDistance == 1000 * 1000

\* The id (0-based) among ids whose vector is nearest to q; ties go to the
\* smaller id.
Nearest(vecs, q, ids) ==
    CHOOSE i \in ids : \A j \in ids :
        \/ L2(vecs[i + 1], q) < L2(vecs[j + 1], q)
        \/ L2(vecs[i + 1], q) = L2(vecs[j + 1], q) /\ i =< j

RECURSIVE SearchFrom(_, _, _, _)
SearchFrom(vecs, q, ids, k) ==
    IF k = 0 THEN <<>>
    ELSE IF ids = {} THEN <<[id |-> -1, dist |-> PadDistance]>>
                          \o SearchFrom(vecs, q, ids, k - 1)
    ELSE LET n == Nearest(vecs, q, ids)
         IN  <<[id |-> n, dist |-> L2(vecs[n + 1], q)]>>
             \o SearchFrom(vecs, q, ids \ {n}, k - 1)

\* faiss_index.search(q, k): always k entries, nearest first; when the index
\* holds fewer than k vectors the tail is filled with id -1.
IndexSearch(vecs, q, k) == SearchFrom(vecs, q, 0..(Len(vecs) - 1), k)

(***************************************************************************)
(* State.                                                                  *)
(***************************************************************************)
VARIABLES
    phase,            \* "import": gemini_utils not yet imported; "serving":
                      \* the Flask app answers requests; "failed": the import
                      \* raised and the process is gone
    indexFile,        \* faiss_index.bin   (FAISS_INDEX_PATH)
    contextFile,      \* context_data.json (CONTEXT_DATA_PATH)
    embedding_model,  \* global: "None" or "loaded"
    faiss_index,      \* global: [isNone, vecs]
    context_texts,    \* global: list of document texts
    initLog,          \* lines logged by initialize_rag_components
    reqBody,          \* body of the last /api/ask request
    call,             \* what the last get_sql_from_question call did
    executed,         \* statements the last request passed to conn.execute
    http,             \* response of the last /api/ask request
    inflight,         \* per request thread: the get_sql_from_question call
                      \* it is in, and the line that call has reached
    loader,           \* dataload.py: the CSV files it finds, the entry of
                      \* file_table_map its loop is at, the tables it made
    tableReq,         \* the last GET /api/data/<table_name>: the name, the
                      \* response, connections opened, statements executed
    frame,            \* dataload.py: the DataFrame read from a CSV file, the
                      \* table it is for, and what preprocess_df returned
    ui                \* app.py: st.session_state, the last click, the status
                      \* box and the response shown

vars == <<phase, indexFile, contextFile, embedding_model, faiss_index,
          context_texts, initLog, reqBody, call, executed, http, inflight,
          loader, tableReq, frame, ui>>

(***************************************************************************)
(* Files.                                                                  *)
(***************************************************************************)
Missing == [kind |-> "missing", data |-> <<>>]
Corrupt == [kind |-> "corrupt", data |-> <<>>]
FileOf(d) == [kind |-> "ok", data |-> d]

\* os.path.exists
Exists(f) == f.kind # "missing"

\* Vectors and texts an artifact left by an earlier run may hold: any
\* vectors, and the i-th text "old" followed by the digit i.
DiskVectors == {<<0, 0>>, <<1, 2>>}
DiskDoc(i) == <<"o", "l", "d", Digit[i + 1]>>

(***************************************************************************)
(* json.dump / json.load of a list of strings, as a stream of characters.  *)
(* The documents hold no character outside ASCII.                          *)
(***************************************************************************)
Quote == "\""
Backslash == "\\"

\* The escape of one character inside a JSON string.
JsonEscapeChar(c) ==
    IF c = Quote THEN <<Backslash, Quote>>
    ELSE IF c = Backslash THEN <<Backslash, Backslash>>
    ELSE IF c = "\n" THEN <<Backslash, "n">>
    ELSE IF c = "\t" THEN <<Backslash, "t">>
    ELSE <<c>>

RECURSIVE JsonEscape(_)
JsonEscape(text) ==
    IF text = <<>> THEN <<>> ELSE JsonEscapeChar(Head(text)) \o JsonEscape(Tail(text))

JsonString(text) == <<Quote>> \o JsonEscape(text) \o <<Quote>>

RECURSIVE JsonItems(_, _)
JsonItems(texts, i) ==
    IF i > Len(texts) THEN <<>>
    ELSE (IF i > 1 THEN <<",", " ">> ELSE <<>>) \o JsonString(texts[i])
         \o JsonItems(texts, i + 1)

\* json.dump(texts, f): '["a", "b"]'
JsonDump(texts) == <<"[">> \o JsonItems(texts, 1) \o <<"]">>

\* A failed parse, and a parse that read value and stopped before position next.
JsonFail == [ok |-> FALSE, value |-> <<>>, next |-> 0]
JsonOk(value, next) == [ok |-> TRUE, value |-> value, next |-> next]

\* The first position at or after i that holds no whitespace.
SkipWhitespace(s, i) ==
    LET stops == {j \in i..Len(s) : s[j] \notin Whitespace}
    IN  IF stops = {} THEN Len(s) + 1 ELSE CHOOSE j \in stops : \A k \in stops : j =< k

\* The characters a string body stands for (of the escapes, those that
\* json.dump writes for ASCII text).
RECURSIVE JsonUnescape(_)
JsonUnescape(body) ==
    IF body = <<>> THEN JsonOk(<<>>, 0)
    ELSE IF Head(body) # Backslash
         THEN LET rest == JsonUnescape(Tail(body))
              IN  IF rest.ok THEN JsonOk(<<Head(body)>> \o rest.value, 0) ELSE JsonFail
    ELSE IF Len(body) < 2 THEN JsonFail
    ELSE LET c == body[2]
             rest == JsonUnescape(SubSeq(body, 3, Len(body)))
             plain == IF c = "n" THEN "\n" ELSE IF c = "t" THEN "\t" ELSE c
         IN  IF c \in {Quote, Backslash, "n", "t"} /\ rest.ok
             THEN JsonOk(<<plain>> \o rest.value, 0)
             ELSE JsonFail

\* Whether the quote at position j ends a string that opened at position i:
\* it is preceded by an even number of backslashes.
ClosesString(s, i, j) ==
    /\ s[j] = Quote
    /\ LET others == {k \in (i + 1)..(j - 1) : s[k] # Backslash}
           last == IF others = {} THEN i ELSE CHOOSE k \in others : \A m \in others : m =< k
       IN  (j - 1 - last) % 2 = 0

\* A string that opens at position i (which holds a quote).
JsonParseString(s, i) ==
    LET ends == {j \in (i + 1)..Len(s) : ClosesString(s, i, j)}
    IN  IF ends = {} THEN JsonFail
        ELSE LET j == CHOOSE e \in ends : \A k \in ends : e =< k
                 body == JsonUnescape(SubSeq(s, i + 1, j - 1))
             IN  IF body.ok THEN JsonOk(body.value, j + 1) ELSE JsonFail

\* The items of a list from position i on, the first of them at i.
RECURSIVE JsonParseItems(_, _)
JsonParseItems(s, i) ==
    IF i > Len(s) \/ s[i] # Quote THEN JsonFail
    ELSE LET item == JsonParseString(s, i)
         IN  IF ~item.ok THEN JsonFail
             ELSE LET j == SkipWhitespace(s, item.next)
                  IN  IF j > Len(s) THEN JsonFail
                      ELSE IF s[j] = "]" THEN JsonOk(<<item.value>>, j + 1)
                      ELSE IF s[j] # "," THEN JsonFail
                      ELSE LET rest == JsonParseItems(s, SkipWhitespace(s, j + 1))
                           IN  IF rest.ok THEN JsonOk(<<item.value>> \o rest.value, rest.next)
                               ELSE JsonFail

\* json.load(f) of a list of strings: the list, or a failure (the load
\* raises) when the stream is no such list.
JsonLoad(s) ==
    LET i == SkipWhitespace(s, 1)
    IN  IF i > Len(s) \/ s[i] # "[" THEN JsonFail
        ELSE LET j == SkipWhitespace(s, i + 1)
                 list == IF j =< Len(s) /\ s[j] = "]" THEN JsonOk(<<>>, j + 1)
                         ELSE JsonParseItems(s, j)
             IN  IF list.ok /\ SkipWhitespace(s, list.next) > Len(s) THEN list ELSE JsonFail

(***************************************************************************)
(* faiss.write_index / faiss.read_index of a flat index, as a stream of    *)
(* numbers: the dimension, the number of vectors, then the coordinates.    *)
(***************************************************************************)
\* The dimension of the embeddings of the model.
Dimension == 2

WriteIndex(vecs) ==
    <<Dimension, Len(vecs)>>
    \o [k \in 1..(Dimension * Len(vecs)) |->
           vecs[((k - 1) \div Dimension) + 1][((k - 1) % Dimension) + 1]]

\* Mutant: the coordinates are read column by column.
ReadIndexTransposed(data) ==
    IF Len(data) < 2 \/ data[1] # Dimension \/ Len(data) # 2 + data[1] * data[2]
    THEN [ok |-> FALSE, vecs |-> <<>>]
    ELSE [ok |-> TRUE,
          vecs |-> [i \in 1..data[2] |->
                      [c \in 1..Dimension |-> data[2 + (c - 1) * data[2] + i]]]]

\* The vectors of a stream, or a failure (the read raises) when its length
\* does not fit its header.
ReadIndex(data) ==
    IF Len(data) < 2 \/ data[1] # Dimension \/ Len(data) # 2 + data[1] * data[2]
    THEN [ok |-> FALSE, vecs |-> <<>>]
    ELSE [ok |-> TRUE,
          vecs |-> [i \in 1..data[2] |->
                      [c \in 1..Dimension |-> data[2 + (i - 1) * Dimension + c]]]]

IndexFiles ==
    {Missing, Corrupt} \cup {FileOf(WriteIndex(v)) : v \in SeqsUpTo(DiskVectors, MaxDiskVectors)}
ContextFiles ==
    {Missing, Corrupt}
    \cup {FileOf(JsonDump([i \in 1..m |-> DiskDoc(i)])) : m \in 0..MaxDiskDocs}

(***************************************************************************)
(* gemini_utils.py: initialize_rag_components                              *)
(***************************************************************************)
NoneIndex == [isNone |-> TRUE, vecs |-> <<>>]
IndexOf(v) == [isNone |-> FALSE, vecs |-> v]

\* The globals, and the lines logged so far, as one record.
Globals(em, fi, ct, log) ==
    [embedding_model |-> em, faiss_index |-> fi, context_texts |-> ct, log |-> log]

\* logging.info / logging.error of one line.
Log(g, line) == [g EXCEPT !.log = Append(@, line)]

\* Points where initialisation can fail from outside.  (Reading an artifact
\* fails when the file is corrupt.)
InitFaults == {"model", "encode", "write_index", "write_json", "json_dump"}
InitFaultSets == {f \in SUBSET InitFaults : Cardinality(f) =< 2}

\* Mutant: the except clause forgets to reset the index it has read.
LoadFailedKeepsIndex(g) == [Log(g, "load_failed") EXCEPT !.context_texts = <<>>]

\* Lines 51-54: the except clause of the load.
LoadFailed(g) ==
    [Log(g, "load_failed") EXCEPT !.faiss_index = NoneIndex, !.context_texts = <<>>]

\* Lines 44-54: load both artifacts when both exist; an exception while
\* reading either resets both globals.
LoadFromDisk(g, idxF, ctxF) ==
    IF Exists(idxF) /\ Exists(ctxF)
    THEN IF idxF.kind = "ok" /\ ReadIndex(idxF.data).ok
         THEN IF ctxF.kind = "ok" /\ JsonLoad(ctxF.data).ok
              THEN [Log(Log(g, "loading"), "loaded")
                       EXCEPT !.faiss_index = IndexOf(ReadIndex(idxF.data).vecs),
                              !.context_texts = JsonLoad(ctxF.data).value]
              ELSE LoadFailed([Log(g, "loading")
                                 EXCEPT !.faiss_index = IndexOf(ReadIndex(idxF.data).vecs)])
         ELSE LoadFailed(Log(g, "loading"))
    ELSE g

InitResult(raised, g, idxF, ctxF) ==
    [raised |-> raised, g |-> g, indexFile |-> idxF, contextFile |-> ctxF]

\* Lines 92-100: the corpus and its index.
Built(g) ==
    [g EXCEPT !.context_texts = knowledge_base_documents,
              !.faiss_index = IndexOf(EncodeAll(knowledge_base_documents))]

\* Lines 56-106: build the index from the hard-coded corpus and write both
\* artifacts.  A write that cannot open its file leaves the file as it was;
\* a json.dump that fails after open(.., 'w') leaves the file empty.
BuildIndex(g, idxF, ctxF, faults) ==
    IF "encode" \in faults
    THEN InitResult(TRUE, [g EXCEPT !.context_texts = knowledge_base_documents], idxF, ctxF)
    ELSE IF "write_index" \in faults
    THEN InitResult(TRUE, Built(g), idxF, ctxF)
    ELSE IF "write_json" \in faults
    THEN InitResult(TRUE, Built(g),
                    FileOf(WriteIndex(EncodeAll(knowledge_base_documents))), ctxF)
    ELSE IF "json_dump" \in faults
    THEN InitResult(TRUE, Built(g),
                    FileOf(WriteIndex(EncodeAll(knowledge_base_documents))), FileOf(<<>>))
    ELSE InitResult(FALSE, Log(Built(g), "saved"),
                    FileOf(WriteIndex(EncodeAll(knowledge_base_documents))),
                    FileOf(JsonDump(knowledge_base_documents)))

\* Line 56: build only when nothing was loaded.
BuildOrKeep(g, idxF, ctxF, faults) ==
    IF g.faiss_index.isNone
    THEN BuildIndex(Log(g, "creating"), idxF, ctxF, faults)
    ELSE InitResult(FALSE, g, idxF, ctxF)

\* Lines 32-40: the embedding model.
LoadModel(g) ==
    IF g.embedding_model = "None"
    THEN [Log(g, "load_model") EXCEPT !.embedding_model = "loaded"]
    ELSE g

\* Mutant: the index is loaded or built on every call.
InitIndexUnguarded(g, idxF, ctxF, faults) ==
    BuildOrKeep(LoadFromDisk(g, idxF, ctxF), idxF, ctxF, faults)

\* Lines 43-106, with the embedding model in place.
InitIndex(g, idxF, ctxF, faults) ==
    IF g.faiss_index.isNone
    THEN BuildOrKeep(LoadFromDisk(g, idxF, ctxF), idxF, ctxF, faults)
    ELSE InitResult(FALSE, g, idxF, ctxF)

\* Mutant: a model that cannot be loaded is logged and the function returns.
InitializeSwallowsModelError(g, idxF, ctxF, faults) ==
    IF g.embedding_model = "None" /\ "model" \in faults
    THEN InitResult(FALSE, Log(g, "load_model"), idxF, ctxF)
    ELSE InitIndex(LoadModel(g), idxF, ctxF, faults)

\* Lines 24-106.  Result: whether it raised, the globals and the files after.
initialize_rag_components(g, idxF, ctxF, faults) ==
    IF g.embedding_model = "None" /\ "model" \in faults
    THEN InitResult(TRUE, Log(g, "load_model"), idxF, ctxF)
    ELSE InitIndex(LoadModel(g), idxF, ctxF, faults)

(***************************************************************************)
(* gemini_utils.py: prompt template and get_sql_from_question              *)
(***************************************************************************)
\* Length of SYSTEM_PROMPT_TEMPLATE before and after {retrieved_context}.
TemplatePreLen == 930
TemplatePostLen == 320

Placeholder == "{retrieved_context}"

\* SYSTEM_PROMPT_TEMPLATE: its fixed text is abstracted to filler characters
\* of the same length; the one replacement field is kept as one element.
SYSTEM_PROMPT_TEMPLATE ==
    [i \in 1..TemplatePreLen |-> "T"] \o <<Placeholder>> \o [i \in 1..TemplatePostLen |-> "T"]

\* str.format(retrieved_context=value) on a template with one field.
Format(template, value) ==
    LET i == CHOOSE j \in 1..Len(template) : template[j] = Placeholder
    IN  SubSeq(template, 1, i - 1) \o value \o SubSeq(template, i + 1, Len(template))

\* k of faiss_index.search(query_embedding, k=3)
TopK == 3

\* prompt[:500] in the log line
LogCut == 500

ContextHeader == <<"\n", "\n", "R", "e", "l", "e", "v", "a", "n", "t", " ", "C", "o", "n", "t", "e", "x", "t", " ", "f", "o", "r", " ", "y", "o", "u", "r", " ", "q", "u", "e", "s", "t", "i", "o", "n", ":", "\n">>
BulletMark == <<"-", " ">>
QuestionLabel == <<"\n", "\n", "U", "s", "e", "r", " ", "Q", "u", "e", "s", "t", "i", "o", "n", ":", " ">>
SqlLabel == <<"\n", "S", "Q", "L", " ", "Q", "u", "e", "r", "y", ":">>

\* The marker as gemini_utils.py spells it (three code points) and the text
\* that follows it in the returned error string.
GeminiMarker == <<"U+201A", "U+00F9", "U+00E5">>
ErrorGenerating == <<" ", "E", "r", "r", "o", "r", " ", "g", "e", "n", "e", "r", "a", "t", "i", "n", "g", " ", "S", "Q", "L", ":", " ">>
ErrorString(msg) == GeminiMarker \o ErrorGenerating \o msg

FenceSql == <<"U+0060", "U+0060", "U+0060", "s", "q", "l">>
Fence == <<"U+0060", "U+0060", "U+0060">>

\* Exceptions: a class and a message.
Exc(class, msg) == [class |-> class, msg |-> msg]
ExceptionClasses == {"Exception", "RuntimeError", "IndexError", "AttributeError"}

\* Mutant: a handler that catches RuntimeError only.
CaughtRuntimeErrorOnly(class) == class = "RuntimeError"

\* except Exception: catches every class derived from Exception.
CaughtByExceptException(class) == class \in ExceptionClasses

MsgInit == <<"i", "n", "i", "t">>
MsgEncode == <<"e", "n", "c">>
MsgSearch == <<"s", "r", "c", "h">>
MsgFormat == <<"f", "m", "t">>
MsgModel == <<"a", "p", "i">>
MsgText == <<"t", "x", "t">>
MsgIndexError == <<"l", "i", "s", "t", " ", "i", "n", "d", "e", "x", " ", "o", "u", "t", " ", "o", "f", " ", "r", "a", "n", "g", "e">>

\* list[idx] is defined for -len <= idx < len.
ValidIndex(idx, n) == -n =< idx /\ idx < n

\* list[idx]: a negative idx counts from the end.
PyIndex(list, idx) == IF idx >= 0 THEN list[idx + 1] ELSE list[Len(list) + idx + 1]

\* The 0-based position list[idx] reads.
PyPosition(idx, n) == IF idx >= 0 THEN idx ELSE n + idx

\* Lines 183-184: the ids the loop looks up, up to and including the first
\* one that raises IndexError.
RECURSIVE LookupsMade(_, _)
LookupsMade(indices, n) ==
    IF indices = <<>> THEN <<>>
    ELSE IF ValidIndex(Head(indices), n)
         THEN <<Head(indices)>> \o LookupsMade(Tail(indices), n)
         ELSE <<Head(indices)>>

\* Mutant: the bullet lines come out last result first.
RECURSIVE BulletsReversed(_, _)
BulletsReversed(texts, indices) ==
    IF indices = <<>> THEN <<>>
    ELSE BulletsReversed(texts, Tail(indices))
         \o BulletMark \o PyIndex(texts, Head(indices)) \o <<"\n">>

\* Lines 181-184: one "- text\n" line per id, in the order of indices.
RECURSIVE Bullets(_, _)
Bullets(texts, indices) ==
    IF indices = <<>> THEN <<>>
    ELSE BulletMark \o PyIndex(texts, Head(indices)) \o <<"\n">>
         \o Bullets(texts, Tail(indices))

RetrievedContext(texts, indices) == ContextHeader \o Bullets(texts, indices)

\* Lines 187-190.
BuildPrompt(texts, indices, question) ==
    Format(SYSTEM_PROMPT_TEMPLATE, RetrievedContext(texts, indices))
    \o QuestionLabel \o question \o SqlLabel

\* Line 192: the part of the prompt that is logged.
LogLine(prompt) == Prefix(prompt, LogCut)

\* Line 195: response.text.strip().strip("```sql").strip("```").strip()
ExtractSql(text) ==
    Strip(StripChars(StripChars(Strip(text), CharsOf(FenceSql)), CharsOf(Fence)))

NoExc == Exc("", <<>>)

\* What one call of get_sql_from_question did, before anything happened:
\* inits, encoded, searched and sent count (or list) its calls of
\* initialize_rag_components, encode, search and generate_content; exc is the
\* exception in flight; ret the returned string; escaped whether an
\* exception left the function.
NoCall ==
    [called |-> FALSE, inits |-> 0, encoded |-> <<>>, searched |-> 0,
     distances |-> <<>>, indices |-> <<>>, lookups |-> <<>>, prompt |-> <<>>, logged |-> <<>>,
     sent |-> <<>>, response |-> <<>>, exc |-> NoExc, ret |-> <<>>,
     escaped |-> FALSE]

Raise(tr, class, msg) == [tr EXCEPT !.exc = Exc(class, msg)]
Raised(tr) == tr.exc.class # ""

GsfFaults == {"none", "encode", "search", "format", "model", "text"}

\* Mutant: every call builds and persists the index again.
LazyInitRebuilds(g, idxF, ctxF, initFaults) ==
    [ran |-> TRUE] @@ BuildIndex(Log(g, "creating"), idxF, ctxF, initFaults)

\* Lines 172-174: initialize only when a global is still None.  Line 40
\* turns a failure to load the model into a RuntimeError.
LazyInit(g, idxF, ctxF, initFaults) ==
    IF g.embedding_model = "None" \/ g.faiss_index.isNone
    THEN [ran |-> TRUE] @@ initialize_rag_components(g, idxF, ctxF, initFaults)
    ELSE [ran |-> FALSE, raised |-> FALSE, g |-> g, indexFile |-> idxF, contextFile |-> ctxF]

Started(ini) ==
    LET t == [NoCall EXCEPT !.called = TRUE, !.inits = IF ini.ran THEN 1 ELSE 0]
    IN  IF ini.raised
        THEN Raise(t, IF ini.g.embedding_model = "None" THEN "RuntimeError" ELSE "Exception",
                   MsgInit)
        ELSE t

\* Line 177: embedding_model.encode([question])
Encoded(tr, question, fault) ==
    IF Raised(tr) THEN tr
    ELSE IF fault = "encode"
         THEN Raise([tr EXCEPT !.encoded = <<question>>], "Exception", MsgEncode)
         ELSE [tr EXCEPT !.encoded = <<question>>]

\* The ids and the distances of a search result, in its order.
Ids(res) == [i \in 1..Len(res) |-> res[i].id]
Distances(res) == [i \in 1..Len(res) |-> res[i].dist]

\* distances, indices = ... of line 179
WithResult(tr, res) == [tr EXCEPT !.distances = Distances(res), !.indices = Ids(res)]

\* Line 179: faiss_index.search(query_embedding, k=3)
Searched(tr, g, question, fault) ==
    IF Raised(tr) THEN tr
    ELSE IF fault = "search"
         THEN Raise([tr EXCEPT !.searched = 1], "Exception", MsgSearch)
         ELSE WithResult([tr EXCEPT !.searched = 1],
                         IndexSearch(g.faiss_index.vecs, Encode(question), TopK))

\* Lines 181-184: context_texts[idx] for each id; IndexError ends the loop.
LookedUp(tr, g) ==
    IF Raised(tr) THEN tr
    ELSE IF \E i \in 1..Len(tr.indices) : ~ValidIndex(tr.indices[i], Len(g.context_texts))
         THEN Raise([tr EXCEPT !.lookups = LookupsMade(tr.indices, Len(g.context_texts))],
                    "IndexError", MsgIndexError)
         ELSE [tr EXCEPT !.lookups = tr.indices]

\* Lines 187-190: the prompt.
Prompted(tr, g, question, fault) ==
    IF Raised(tr) THEN tr
    ELSE IF fault = "format" THEN Raise(tr, "Exception", MsgFormat)
    ELSE [tr EXCEPT !.prompt = BuildPrompt(g.context_texts, tr.indices, question)]

\* Line 192: logging.info(prompt[:500])
Logged(tr) == IF Raised(tr) THEN tr ELSE [tr EXCEPT !.logged = <<LogLine(tr.prompt)>>]

\* Mutant: a model call that fails is tried once more.
GeneratedWithRetry(tr, fault, response) ==
    IF Raised(tr) THEN tr
    ELSE IF fault = "model"
         THEN Raise([tr EXCEPT !.sent = <<tr.prompt, tr.prompt>>], "Exception", MsgModel)
         ELSE [tr EXCEPT !.sent = <<tr.prompt>>, !.response = response]

\* Mutant: the model is handed the cut prompt of the log line.
GeneratedFromLogLine(tr, fault, response) ==
    IF Raised(tr) THEN tr
    ELSE IF fault = "model"
         THEN Raise([tr EXCEPT !.sent = <<LogLine(tr.prompt)>>], "Exception", MsgModel)
         ELSE [tr EXCEPT !.sent = <<LogLine(tr.prompt)>>, !.response = response]

\* Line 194: model.generate_content(prompt)
Generated(tr, fault, response) ==
    IF Raised(tr) THEN tr
    ELSE IF fault = "model"
         THEN Raise([tr EXCEPT !.sent = <<tr.prompt>>], "Exception", MsgModel)
         ELSE [tr EXCEPT !.sent = <<tr.prompt>>, !.response = response]

\* Lines 195-198: response.text, cleaned, is the result.
Extracted(tr, fault) ==
    IF Raised(tr) THEN tr
    ELSE IF fault = "text" THEN Raise(tr, "Exception", MsgText)
    ELSE [tr EXCEPT !.ret = ExtractSql(tr.response)]

\* Lines 199-201: the except clause of get_sql_from_question.
OnException(tr) ==
    IF ~Raised(tr) THEN tr
    ELSE IF CaughtByExceptException(tr.exc.class)
         THEN [tr EXCEPT !.ret = ErrorString(tr.exc.msg)]
         ELSE [tr EXCEPT !.escaped = TRUE]

\* Lines 171-198, given what the lazy initialisation did.
TryBlock(question, ini, fault, response) ==
    Extracted(
      Generated(
        Logged(
          Prompted(
            LookedUp(
              Searched(
                Encoded(Started(ini), question, fault),
                ini.g, question, fault),
              ini.g),
            ini.g, question, fault)),
        fault, response),
      fault)

\* Mutant: a call that failed drops the index, to have it built again.
GsfResultDropsIndexOnError(tr, ini) ==
    [tr |-> tr,
     g |-> IF Raised(tr) THEN [ini.g EXCEPT !.faiss_index = NoneIndex] ELSE ini.g,
     indexFile |-> ini.indexFile, contextFile |-> ini.contextFile]

GsfResult(tr, ini) ==
    [tr |-> tr, g |-> ini.g, indexFile |-> ini.indexFile, contextFile |-> ini.contextFile]

WithInit(question, ini, fault, response) ==
    GsfResult(OnException(TryBlock(question, ini, fault, response)), ini)

\* Lines 166-201.  fault names the step that raises from outside ("none":
\* no step does); response is the text the model answers with.
get_sql_from_question(question, g, idxF, ctxF, initFaults, fault, response) ==
    WithInit(question, LazyInit(g, idxF, ctxF, initFaults), fault, response)

(***************************************************************************)
(* run.py: the /api/ask route handler                                      *)
(***************************************************************************)
VALID_TABLES == {<<"s", "a", "l", "e", "s", "_", "s", "u", "m", "m", "a", "r", "y">>,
                 <<"a", "d", "_", "d", "a", "t", "a">>,
                 <<"e", "l", "i", "g", "i", "b", "i", "l", "i", "t", "y", "_", "s", "t", "a", "t", "u", "s">>}

\* The prefix run.py tests for: its marker is one code point.
RunMarker == <<"U+274C">>
ErrorPrefix == RunMarker \o <<" ", "E", "r", "r", "o", "r">>

MsgNoQuestion == <<"N", "o", " ", "q", "u", "e", "s", "t", "i", "o", "n", " ", "p", "r", "o", "v", "i", "d", "e", "d", ".">>
MsgBody == <<"b", "o", "d", "y">>
MsgDb == <<"d", "b">>

\* Statements the database runs without error; it raises on any other text.
Statements ==
    {<<"S", "E", "L", "E", "C", "T", " ", "1", ";">>,
     <<"s", "e", "l", "e", "c", "t", " ", "1">>,
     <<"S", "E", "L", "E", "C", "T", " ", "*", " ", "F", "R", "O", "M", " ", "p", "g", "_", "u", "s", "e", "r", ";">>,
     <<"S", "E", "L", "E", "C", "T", " ", "*", " ", "F", "R", "O", "M", " ", "e", "l", "i", "g", "i", "b", "i", "l", "i", "t", "y", "_", "s", "t", "a", "t", "u", "s">>}

\* conn.execute(text(sql)) raises on a failure of the connection (dbFault)
\* and on text that is no statement.
DbRaises(sql, dbFault) == dbFault \/ sql \notin Statements

\* bool(question) for a string or None.
Truthy(body) == body.hasQuestion /\ body.question # <<>>

NoResponse == [status |-> 0, error |-> <<>>, question |-> <<>>, sql |-> <<>>]
ErrorResponse(status, msg) == [NoResponse EXCEPT !.status = status, !.error = msg]

\* Mutant: the except clause answers without a status code.
ExceptResponseNoStatus(msg) == ErrorResponse(200, msg)

\* Lines 79-81: the except clause of ask.
ExceptResponse(msg) == ErrorResponse(500, msg)

\* Lines 61-81, given the result r of get_sql_from_question.
Execute(body, r, dbFault) ==
    LET After(h, ex) == [http |-> h, executed |-> ex, call |-> r.tr, g |-> r.g,
                         indexFile |-> r.indexFile, contextFile |-> r.contextFile]
    IN  IF r.tr.escaped THEN After(ExceptResponse(r.tr.exc.msg), <<>>)
        ELSE IF StartsWith(r.tr.ret, ErrorPrefix)
             THEN After(ErrorResponse(500, r.tr.ret), <<>>)
        ELSE IF DbRaises(r.tr.ret, dbFault)
             THEN After(ExceptResponse(MsgDb), <<r.tr.ret>>)
        ELSE After([status |-> 200, error |-> <<>>, question |-> body.question,
                    sql |-> r.tr.ret], <<r.tr.ret>>)

\* Lines 50-81.  Result: the response, the statements handed to the
\* database, the trace of the get_sql_from_question call, globals and files.
ask(body, g, idxF, ctxF, initFaults, fault, response, dbFault) ==
    LET Same(h) == [http |-> h, executed |-> <<>>, call |-> NoCall, g |-> g,
                    indexFile |-> idxF, contextFile |-> ctxF]
    IN  IF ~body.json THEN Same(ExceptResponse(MsgBody))
        ELSE IF ~Truthy(body) THEN Same(ErrorResponse(400, MsgNoQuestion))
        ELSE Execute(body,
                     get_sql_from_question(body.question, g, idxF, ctxF,
                                           initFaults, fault, response),
                     dbFault)

(***************************************************************************)
(* run.py: the /api/data/<table_name> route handler                        *)
(***************************************************************************)
MsgInvalidTable == <<"I", "n", "v", "a", "l", "i", "d", " ", "t", "a", "b", "l", "e", " ", "n", "a", "m", "e", ".">>

\* f"SELECT * FROM {table_name}"
SelectAll(table_name) == <<"S", "E", "L", "E", "C", "T", " ", "*", " ", "F", "R", "O", "M", " ">> \o table_name

\* Mutant: a name passes when it starts with an allowed name.
IsValidTableByPrefix(table_name) == \E t \in VALID_TABLES : StartsWith(table_name, t)

\* Line 38: table_name in VALID_TABLES
IsValidTable(table_name) == table_name \in VALID_TABLES

\* Before any request to the route.
NoTableReq ==
    [table_name |-> <<>>, status |-> 0, error |-> <<>>, connects |-> 0, executed |-> <<>>]

\* Lines 37-48.  tables are the tables the database holds; connFault says
\* that engine.connect() fails.  The database raises on a table it does not hold.
get_table_data(table_name, tables, connFault) ==
    IF ~IsValidTable(table_name)
    THEN [NoTableReq EXCEPT !.table_name = table_name, !.status = 400,
                            !.error = MsgInvalidTable]
    ELSE IF connFault
    THEN [NoTableReq EXCEPT !.table_name = table_name, !.status = 500,
                            !.error = MsgDb, !.connects = 1]
    ELSE IF table_name \notin tables
    THEN [NoTableReq EXCEPT !.table_name = table_name, !.status = 500,
                            !.error = MsgDb, !.connects = 1,
                            !.executed = <<SelectAll(table_name)>>]
    ELSE [NoTableReq EXCEPT !.table_name = table_name, !.status = 200,
                            !.connects = 1, !.executed = <<SelectAll(table_name)>>]

\* Names a client asks for: the allowed ones, a table of the loader, a
\* system table, another spelling, and an allowed name with a tail.
TableNames ==
    VALID_TABLES
    \cup {<<"t", "o", "t", "a", "l", "_", "s", "a", "l", "e", "s">>, <<"p", "g", "_", "u", "s", "e", "r">>, <<"A", "D", "_", "D", "A", "T", "A">>,
          <<"a", "d", "_", "d", "a", "t", "a", ";", " ", "D", "R", "O", "P", " ", "T", "A", "B", "L", "E", " ", "a", "d", "_", "d", "a", "t", "a">>}

(***************************************************************************)
(* Inputs.                                                                 *)
(***************************************************************************)
\* The questions asked: none, blanks, and "top 5 ads?".
Questions ==
    {<<>>, <<" ", " ">>, <<"t", "o", "p", " ", "5", " ", "a", "d", "s", "?">>}

Bodies ==
    {[json |-> FALSE, hasQuestion |-> FALSE, question |-> <<>>],
     [json |-> TRUE, hasQuestion |-> FALSE, question |-> <<>>]}
    \cup {[json |-> TRUE, hasQuestion |-> TRUE, question |-> q] : q \in Questions}

\* The shapes in which the model wraps a statement s.
Plain(s) == s
Padded(s) == <<" ">> \o s \o <<"\n">>
FencedLines(s) == FenceSql \o <<"\n">> \o s \o <<"\n">> \o Fence
FencedInline(s) == Fence \o s \o Fence

Responses ==
    UNION {{Plain(s), Padded(s), FencedLines(s), FencedInline(s)} : s \in Statements}

(***************************************************************************)
(* dataload.py                                                             *)
(***************************************************************************)
\* Lines 24-28: CSV path -> table, in the order of the dict.
file_table_map ==
    <<[path |-> "../../datasets/Product-Level Total Sales and Metrics (mapped).csv",
       table |-> <<"t", "o", "t", "a", "l", "_", "s", "a", "l", "e", "s">>],
      [path |-> "../../datasets/Product-Level Ad Sales and Metrics (mapped).csv",
       table |-> <<"a", "d", "_", "s", "a", "l", "e", "s">>],
      [path |-> "../../datasets/Product-Level Eligibility Table (mapped).csv",
       table |-> <<"e", "l", "i", "g", "i", "b", "i", "l", "i", "t", "y">>]>>

\* What os.path.exists and pd.read_csv find at a path: no file, a CSV file,
\* or a file that read_csv raises on.
DatasetKinds == {"missing", "ok", "bad"}

\* The state of a run of dataload.py: pos entries of file_table_map are done.
LoaderAt(pos, datasets, tables) == [pos |-> pos, datasets |-> datasets, tables |-> tables]

\* Lines 118-133: read, preprocess, df.to_sql(table, if_exists='replace');
\* an exception of any of them is printed and the table is not made.
load_and_upload(tables, kind, table, dbFault) ==
    IF kind = "bad" \/ dbFault THEN tables ELSE tables \cup {table}

\* The table names the prompt template tells the model to use
\* (gemini_utils.py lines 118, 124, 133 and 139).
TemplateTables ==
    {<<"s", "a", "l", "e", "s", "_", "s", "u", "m", "m", "a", "r", "y">>,
     <<"a", "d", "_", "d", "a", "t", "a">>,
     <<"e", "l", "i", "g", "i", "b", "i", "l", "i", "t", "y", "_", "s", "t", "a", "t", "u", "s">>}

(***************************************************************************)
(* dataload.py: preprocess_df.  A cell is [kind, v]: "str" with its text,  *)
(* "num" with its numeral in canonical form, "nan", "datetime" with its    *)
(* date, or "nat".  A column is [dtype, cells]; a frame has one column.    *)
(***************************************************************************)
Cell(kind, v) == [kind |-> kind, v |-> v]
NaN == Cell("nan", <<>>)
NaT == Cell("nat", <<>>)
Zero == Cell("num", <<"0">>)
Column(dtype, cells) == [dtype |-> dtype, cells |-> cells]

DigitChars == {Digit[i] : i \in 1..Len(Digit)}

\* Line 47: the characters of the class [₹$,% ].
CleanedChars == {"U+20B9", "$", ",", "%", " "}

\* Line 47: .str.replace(r'[₹$,% ]', '', regex=True)
RECURSIVE Cleaned(_)
Cleaned(text) ==
    IF text = <<>> THEN <<>>
    ELSE (IF Head(text) \in CleanedChars THEN <<>> ELSE <<Head(text)>>) \o Cleaned(Tail(text))

\* A text without its sign.
Unsigned(text) == IF text # <<>> /\ Head(text) \in {"-", "+"} THEN Tail(text) ELSE text

\* Whether pd.to_numeric parses text: an optional sign, digits, at most one
\* decimal point, at least one digit.  (Exponents, inf and nan are not
\* among the cells of the model.)
IsNumeral(text) ==
    LET u == Unsigned(text)
    IN  /\ \A i \in 1..Len(u) : u[i] \in DigitChars \cup {"."}
        /\ Count(u, ".") =< 1
        /\ \E i \in 1..Len(u) : u[i] \in DigitChars

\* The numeral of the number text stands for, in one form per number: no
\* plus sign, no leading zeros, no trailing zeros after the point, no point
\* without digits after it.
Canonical(text) ==
    LET u == Unsigned(text)
        dot == IF Count(u, ".") = 0 THEN Len(u) + 1 ELSE CHOOSE i \in 1..Len(u) : u[i] = "."
        int == LStripChars(SubSeq(u, 1, dot - 1), {"0"})
        frac == RStripChars(SubSeq(u, dot + 1, Len(u)), {"0"})
        body == (IF int = <<>> THEN <<"0">> ELSE int)
                \o (IF frac = <<>> THEN <<>> ELSE <<".">> \o frac)
    IN  IF Head(text) = "-" /\ body # <<"0">> THEN <<"-">> \o body ELSE body

\* The text of a cell as astype(str) gives it.
AsStr(cell) ==
    IF cell.kind = "nan" THEN <<"n", "a", "n">>
    ELSE IF cell.kind = "nat" THEN <<"N", "a", "T">>
    ELSE cell.v

\* pd.to_numeric(.., errors='coerce') of one text: what does not parse
\* becomes NaN; nothing raises.
ToNumericCoerce(text) == IF IsNumeral(text) THEN Cell("num", Canonical(text)) ELSE NaN

\* The dtype of a column of numbers: float64 with a NaN or a fraction in it.
NumericDtype(cells) ==
    IF \E i \in 1..Len(cells) : cells[i].kind = "nan" \/ Count(cells[i].v, ".") > 0
    THEN "float64" ELSE "int64"

IsNumericDtype(dtype) == dtype \in {"int64", "float64"}

UpperLetters == <<"A", "B", "C", "D", "E", "F", "G", "H", "I", "J", "K", "L", "M", "N", "O", "P", "Q", "R", "S", "T", "U", "V", "W", "X", "Y", "Z">>
LowerLetters == <<"a", "b", "c", "d", "e", "f", "g", "h", "i", "j", "k", "l", "m", "n", "o", "p", "q", "r", "s", "t", "u", "v", "w", "x", "y", "z">>

\* str.lower() of one character and of a text.
LowerChar(c) ==
    IF \E i \in 1..Len(UpperLetters) : UpperLetters[i] = c
    THEN LowerLetters[CHOOSE i \in 1..Len(UpperLetters) : UpperLetters[i] = c]
    ELSE c
Lower(text) == [i \in 1..Len(text) |-> LowerChar(text[i])]

\* Line 38: col.strip().replace(" ", "_").lower()
StandardName(name) ==
    Lower([i \in 1..Len(Strip(name)) |->
              IF Strip(name)[i] = " " THEN "_" ELSE Strip(name)[i]])

\* pd.read_csv: a column whose every text is a number is numeric, any other
\* column has dtype object and holds the texts.
ReadCsvColumn(texts) ==
    IF \A i \in 1..Len(texts) : IsNumeral(texts[i])
    THEN LET cells == [i \in 1..Len(texts) |-> Cell("num", Canonical(texts[i]))]
         IN  Column(NumericDtype(cells), cells)
    ELSE Column("object", [i \in 1..Len(texts) |-> Cell("str", texts[i])])

\* fillna(value)
FillNa(cells, value) ==
    [i \in 1..Len(cells) |-> IF cells[i].kind \in {"nan", "nat"} THEN value ELSE cells[i]]

AnyNull(cells) == \E i \in 1..Len(cells) : cells[i].kind \in {"nan", "nat"}

\* Lines 45-52: the conversion to numbers.  With errors='coerce' it does
\* not raise: the except clause of lines 59-61 is not entered.
ToNumeric(col) ==
    IF col.dtype = "object"
    THEN LET cells == [i \in 1..Len(col.cells) |->
                          ToNumericCoerce(Cleaned(AsStr(col.cells[i])))]
         IN  Column(NumericDtype(cells), cells)
    ELSE col

\* Lines 55-57: NaN left by the conversion becomes 0.
FillConverted(col) ==
    IF AnyNull(col.cells) /\ IsNumericDtype(col.dtype)
    THEN Column("float64", FillNa(col.cells, Zero))
    ELSE col

\* A date written YYYY-MM-DD.
IsDate(text) ==
    /\ Len(text) = 10
    /\ \A i \in 1..10 : IF i \in {5, 8} THEN text[i] = "-" ELSE text[i] \in DigitChars

\* The instant a number stands for in pd.to_datetime: that many nanoseconds
\* after 1970-01-01.
EpochPlus(numeral) == <<"1", "9", "7", "0", "-", "0", "1", "-", "0", "1", "+">> \o numeral

\* pd.to_datetime(.., errors='coerce') of one cell.
ToDatetimeCoerce(cell) ==
    IF cell.kind = "str"
    THEN IF IsDate(cell.v) THEN Cell("datetime", cell.v) ELSE NaT
    ELSE IF cell.kind = "num" THEN Cell("datetime", EpochPlus(cell.v))
    ELSE IF cell.kind = "datetime" THEN cell
    ELSE NaT

ToDatetime(col) ==
    Column("datetime64[ns]", [i \in 1..Len(col.cells) |-> ToDatetimeCoerce(col.cells[i])])

\* Lines 66-71: only a column that still has dtype object is tried as dates.
DatetimeStep(col) == IF col.dtype = "object" THEN ToDatetime(col) ELSE col

\* Lines 41-71 for one column.
ConvertColumn(col) == DatetimeStep(FillConverted(ToNumeric(col)))

\* astype(str) of a column: a float without fraction is written with ".0".
AsStrColumn(col) ==
    Column("object",
           [i \in 1..Len(col.cells) |->
               Cell("str",
                    IF col.dtype = "float64" /\ col.cells[i].kind = "num"
                       /\ Count(col.cells[i].v, ".") = 0
                    THEN col.cells[i].v \o <<".", "0">>
                    ELSE AsStr(col.cells[i]))])

Date1900 == Cell("datetime", <<"1", "9", "0", "0", "-", "0", "1", "-", "0", "1">>)

\* Line 106: the map of the eligibility column.
EligibilityMap(cell) ==
    IF Lower(AsStr(cell)) \in {<<"t", "r", "u", "e">>, <<"y", "e", "s">>, <<"e", "l", "i", "g", "i", "b", "l", "e">>}
    THEN Cell("num", <<"1">>) ELSE Zero

\* Lines 75-107: the rules of one table, for the column called name.
TableRules(table_name, name, col) ==
    IF name = <<"i", "t", "e", "m", "_", "i", "d">> THEN AsStrColumn(col)
    ELSE IF table_name = <<"t", "o", "t", "a", "l", "_", "s", "a", "l", "e", "s">> /\ name = <<"d", "a", "t", "e">> /\ col.dtype = "datetime64[ns]"
    THEN Column(col.dtype, FillNa(col.cells, Date1900))
    ELSE IF table_name = <<"a", "d", "_", "s", "a", "l", "e", "s">> /\ name \in {<<"a", "d", "_", "s", "p", "e", "n", "d">>, <<"a", "d", "_", "s", "a", "l", "e", "s">>}
    THEN Column(col.dtype, FillNa(col.cells, Zero))
    ELSE IF table_name = <<"e", "l", "i", "g", "i", "b", "i", "l", "i", "t", "y">> /\ name = <<"e", "l", "i", "g", "i", "b", "i", "l", "i", "t", "y", "_", "d", "a", "t", "e", "t", "i", "m", "e", "_", "u", "t", "c">>
    THEN Column("datetime64[ns]", FillNa(ToDatetime(col).cells, Date1900))
    ELSE IF table_name = <<"e", "l", "i", "g", "i", "b", "i", "l", "i", "t", "y">> /\ name = <<"e", "l", "i", "g", "i", "b", "i", "l", "i", "t", "y">> /\ col.dtype = "object"
    THEN Column("int64", [i \in 1..Len(col.cells) |-> EligibilityMap(col.cells[i])])
    ELSE col

\* Line 110: drop_duplicates keeps the first of equal rows.
DropDuplicates(col) ==
    LET keep == {i \in 1..Len(col.cells) : \A j \in 1..(i - 1) : col.cells[j] # col.cells[i]}
        Nth(n) == CHOOSE i \in keep : Cardinality({j \in keep : j < i}) = n - 1
    IN  Column(col.dtype, [n \in 1..Cardinality(keep) |-> col.cells[Nth(n)]])

\* A frame of one column.
Frame(name, col) == [name |-> name, col |-> col]

\* Lines 31-115.
preprocess_df(df, table_name) ==
    Frame(StandardName(df.name),
          DropDuplicates(TableRules(table_name, StandardName(df.name),
                                    ConvertColumn(df.col))))

\* No frame read yet.
NoFrame ==
    [table_name |-> <<>>, df |-> Frame(<<>>, Column("object", <<>>)),
     out |-> Frame(<<>>, Column("object", <<>>)), done |-> FALSE]

\* Texts found in the cells of the CSV files: numbers, numbers written with
\* a thousands separator or a percent sign, words, dates.
CellTexts ==
    {<<"1", "2">>, <<"7", ".", "5", "0">>, <<"1", ",", "2", "0", "0">>, <<"5", "0", "%">>, <<"N", "o", "t", " ", "e", "l", "i", "g", "i", "b", "l", "e">>, <<"2", "0", "2", "3", "-", "0", "1", "-", "1", "5">>}

\* Column names found in the headers of the CSV files.
HeaderNames ==
    {<<"i", "t", "e", "m", "_", "i", "d">>, <<"D", "a", "t", "e">>, <<"m", "e", "s", "s", "a", "g", "e">>, <<"a", "d", " ", "s", "p", "e", "n", "d">>, <<"e", "l", "i", "g", "i", "b", "i", "l", "i", "t", "y", "_", "d", "a", "t", "e", "t", "i", "m", "e", "_", "u", "t", "c">>}

(***************************************************************************)
(* frontend/app.py: the Streamlit page.  Every click runs the script from  *)
(* the top with st.session_state kept.                                     *)
(***************************************************************************)
\* Lines 122-143: the texts of the answer.
NoSqlGenerated == <<"N", "o", " ", "S", "Q", "L", " ", "g", "e", "n", "e", "r", "a", "t", "e", "d", ".">>
AnswerNoResult == <<"U+26A0", "U+FE0F", " ", "N", "o", " ", "m", "e", "a", "n", "i", "n", "g", "f", "u", "l", " ", "r", "e", "s", "u", "l", "t", " ", "r", "e", "t", "u", "r", "n", "e", "d", ".">>
AnswerReady == <<"U+2705", " ", "Y", "o", "u", "r", " ", "d", "a", "t", "a", " ", "i", "s", " ", "r", "e", "a", "d", "y", "!", " ", "E", "x", "p", "l", "o", "r", "e", " ", "t", "h", "e", " ", "v", "i", "s", "u", "a", "l", "i", "z", "a", "t", "i", "o", "n", "s", " ", "a", "n", "d", " ", "t", "a", "b", "l", "e", " ", "b", "e", "l", "o", "w", ".", " ", "U+1F4CA">>
AnswerNone == <<"U+2139", "U+FE0F", " ", "T", "h", "e", " ", "b", "o", "t", " ", "p", "r", "o", "c", "e", "s", "s", "e", "d", " ", "y", "o", "u", "r", " ", "r", "e", "q", "u", "e", "s", "t", " ", "b", "u", "t", " ", "r", "e", "t", "u", "r", "n", "e", "d", " ", "n", "o", " ", "s", "p", "e", "c", "i", "f", "i", "c", " ", "d", "a", "t", "a", " ", "o", "r", " ", "a", " ", "t", "e", "x", "t", "u", "a", "l", " ", "r", "e", "s", "p", "o", "n", "s", "e", ".">>
MoneyPrefix == <<"U+1F4B0", " ", "Y", "o", "u", "r", " ", "r", "e", "s", "u", "l", "t", ":", " ", "*", "*", "U+20B9">>
ResultPrefix == <<"U+1F4E2", " ", "R", "e", "s", "u", "l", "t", ":", " ", "*", "*">>
Bold == <<"*", "*">>

\* JSON values of the key "result": a list of rows (each row the list of
\* the values of a dict), or no value.
ListResult(rows) == [kind |-> "list", rows |-> rows]
NoneResult == [kind |-> "none", rows |-> <<>>]

\* The digits of a whole number with a comma before every group of three.
RECURSIVE Grouped(_)
Grouped(digits) ==
    IF Len(digits) <= 3 THEN digits
    ELSE Grouped(SubSeq(digits, 1, Len(digits) - 3)) \o <<",">>
         \o SubSeq(digits, Len(digits) - 2, Len(digits))

\* Line 132: f"{value:,.2f}" of a whole number that is not negative.
Format2f(numeral) == Grouped(numeral) \o <<".", "0", "0">>

\* Lines 125-143.
answer_text(result) ==
    IF result.kind = "list" /\ result.rows # <<>>
    THEN IF Len(result.rows) = 1 /\ Len(result.rows[1]) = 1
         THEN LET value == result.rows[1][1]
              IN  IF value.kind = "num"
                  THEN MoneyPrefix \o Format2f(value.v) \o Bold
                  ELSE ResultPrefix \o value.v \o Bold
         ELSE AnswerReady
    ELSE IF result.kind = "none" THEN AnswerNone
    ELSE AnswerNoResult

\* run.py lines 57, 65, 72-76, 81: the JSON object jsonify makes of a
\* response of ask, as the set of its keys and their values.
JsonBody(h, rows) ==
    IF h.status = 200
    THEN [keys |-> {"question", "sql", "result"}, error |-> <<>>,
          question |-> h.question, sql |-> h.sql, result |-> ListResult(rows)]
    ELSE [keys |-> {"error"}, error |-> h.error,
          question |-> <<>>, sql |-> <<>>, result |-> NoneResult]

NoData == [keys |-> {}, error |-> <<>>, question |-> <<>>, sql |-> <<>>, result |-> NoneResult]

\* data.get(key, default)
Get(data, key, default) == IF key \in data.keys THEN data[key] ELSE default

\* What requests.post and response.json() give: a JSON object, a body that
\* is no JSON, or no connection.
JsonReply(data) == [kind |-> "json", data |-> data]
NotJson == [kind |-> "not json", data |-> NoData]
Refused == [kind |-> "ConnectionError", data |-> NoData]

\* Lines 90-93.
SessionStart == [chat_history |-> <<>>, current_question_input |-> <<>>]

\* Mutant: no response is taken to hold the key 'error'.
HasErrorKeyNever(data) == FALSE

\* Line 117: 'error' in data
HasErrorKey(data) == "error" \in data.keys

\* Lines 145-151.
Answered(session, question, data) ==
    LET result == Get(data, "result", NoneResult)
        sql == Get(data, "sql", NoSqlGenerated)
    IN  [chat_history |-> Append(session.chat_history,
                                 [question |-> question, answer |-> answer_text(result),
                                  sql |-> sql, data |-> result]),
         current_question_input |-> <<>>]

\* Lines 108-156: the Ask Bot button.  Result: the session state and the
\* status box shown (st.warning, st.error or st.success).
ask_button(session, question, reply) ==
    IF Strip(question) = <<>>
    THEN [session |-> session, notice |-> "warning"]
    ELSE IF reply.kind = "ConnectionError"
    THEN [session |-> session, notice |-> "error"]
    ELSE IF reply.kind # "json"
    THEN [session |-> session, notice |-> "error"]
    ELSE IF HasErrorKey(reply.data)
    THEN [session |-> session, notice |-> "error"]
    ELSE [session |-> Answered(session, question, reply.data),
          notice |-> "success"]

\* Lines 158-161: the Clear History button.
clear_history_button(session) ==
    [session |-> SessionStart, notice |-> "success"]

\* Lines 178-187: what is shown under "Bot's Response".
NoLatest == [shown |-> FALSE, answer |-> <<>>, sql |-> <<>>, data |-> NoneResult]
Latest(session) ==
    IF session.chat_history # <<>>
    THEN LET latest == PyIndex(session.chat_history, -1)
         IN  [shown |-> TRUE, answer |-> latest.answer, sql |-> latest.sql,
              data |-> latest.data]
    ELSE NoLatest

NoClick == [button |-> "none", question |-> <<>>, reply |-> Refused]

\* One run of the script: the button handler, then the page below it.
Page(click, r) ==
    [session |-> r.session, click |-> click, notice |-> r.notice,
     latest |-> Latest(r.session)]

\* The page when the browser opens it.
FirstPage == Page(NoClick, [session |-> SessionStart, notice |-> "none"])

\* What the user has typed into the text input when clicking.
UiQuestions ==
    {<<>>, <<" ", " ">>, <<"t", "o", "p", " ", "5", " ", "a", "d", "s", "?">>,
     <<" ", "s", "a", "l", "e", "s", " ">>}

\* Rows a query gives: none, one value that is a number, one value that is
\* a text, two rows.
ResultRows ==
    {<<>>,
     << <<Cell("num", <<"1", "2", "0", "0">>)>> >>,
     << <<Cell("str", <<"B", "0", "7">>)>> >>,
     << <<Cell("num", <<"7">>)>>, <<Cell("num", <<"9">>)>> >>}

\* What the backend at API_URL answers to the question.
Replies(question) ==
    {Refused, NotJson}
    \cup {JsonReply(JsonBody(h, <<>>)) :
            h \in {ExceptResponse(MsgDb), ErrorResponse(500, ErrorPrefix)}}
    \cup {JsonReply(JsonBody([status |-> 200, error |-> <<>>, question |-> question,
                              sql |-> <<"S", "E", "L", "E", "C", "T", " ", "1", ";">>],
                             rows)) : rows \in ResultRows}

\* Request threads of the Flask server (app.run serves each request in a
\* thread of its own).
Threads == {1, 2}

\* A thread outside get_sql_from_question.
Idle == [pc |-> "idle", question |-> <<>>, tr |-> NoCall]

(***************************************************************************)
(* Actions.                                                                *)
(***************************************************************************)
Init ==
    /\ phase = "import"
    /\ indexFile \in IndexFiles
    /\ contextFile \in ContextFiles
    /\ embedding_model = "None"
    /\ faiss_index = NoneIndex
    /\ context_texts = <<>>
    /\ initLog = <<>>
    /\ reqBody = [json |-> FALSE, hasQuestion |-> FALSE, question |-> <<>>]
    /\ call = NoCall
    /\ executed = <<>>
    /\ http = NoResponse
    /\ inflight = [t \in Threads |-> Idle]
    /\ loader = LoaderAt(0, [i \in 1..Len(file_table_map) |-> "ok"], {})
    /\ tableReq = NoTableReq
    /\ frame = NoFrame
    /\ ui = FirstPage

\* Line 110: importing gemini_utils runs initialize_rag_components; the app
\* serves only if the import did not raise.
ImportModule ==
    /\ phase = "import"
    /\ \E faults \in InitFaultSets :
       \E r \in {initialize_rag_components(
                      Globals(embedding_model, faiss_index, context_texts, initLog),
                      indexFile, contextFile, faults)} :
             /\ phase' = IF r.raised THEN "failed" ELSE "serving"
             /\ embedding_model' = r.g.embedding_model
             /\ faiss_index' = r.g.faiss_index
             /\ context_texts' = r.g.context_texts
             /\ initLog' = r.g.log
             /\ indexFile' = r.indexFile
             /\ contextFile' = r.contextFile
    /\ UNCHANGED <<reqBody, call, executed, http, inflight, loader, tableReq, frame, ui>>

\* One POST /api/ask, handled from start to end.
Ask ==
    /\ phase = "serving"
    /\ \E body \in Bodies :
       \E fault \in (IF body.json /\ Truthy(body) THEN GsfFaults ELSE {"none"}) :
       \E response \in (IF body.json /\ Truthy(body) /\ fault = "none"
                        THEN Responses ELSE {<<>>}) :
       \E dbFault \in (IF response # <<>> THEN BOOLEAN ELSE {FALSE}) :
       \E initFaults \in (IF embedding_model = "None" \/ faiss_index.isNone
                          THEN InitFaultSets ELSE {{}}) :
       \E r \in {ask(body, Globals(embedding_model, faiss_index, context_texts, initLog),
                     indexFile, contextFile, initFaults, fault, response, dbFault)} :
             /\ reqBody' = body
             /\ call' = r.call
             /\ executed' = r.executed
             /\ http' = r.http
             /\ embedding_model' = r.g.embedding_model
             /\ faiss_index' = r.g.faiss_index
             /\ context_texts' = r.g.context_texts
             /\ initLog' = r.g.log
             /\ indexFile' = r.indexFile
             /\ contextFile' = r.contextFile
    /\ UNCHANGED <<phase, inflight, loader, tableReq, frame, ui>>

\* The process ends and a new one is started on the same files.
Restart ==
    /\ phase \in {"serving", "failed"}
    /\ phase' = "import"
    /\ embedding_model' = "None"
    /\ faiss_index' = NoneIndex
    /\ context_texts' = <<>>
    /\ initLog' = <<>>
    /\ reqBody' = [json |-> FALSE, hasQuestion |-> FALSE, question |-> <<>>]
    /\ call' = NoCall
    /\ executed' = <<>>
    /\ http' = NoResponse
    /\ inflight' = [t \in Threads |-> Idle]
    /\ UNCHANGED <<indexFile, contextFile, loader, tableReq, frame, ui>>

Next == ImportModule \/ Ask \/ Restart

Spec == Init /\ [][Next]_vars

(***************************************************************************)
(* Concurrent requests: get_sql_from_question line by line, one thread per *)
(* request, and further calls of initialize_rag_components.                *)
(***************************************************************************)
GlobalsNow == Globals(embedding_model, faiss_index, context_texts, initLog)

\* The faults an initialisation can meet: none when it has nothing to do.
InitFaultsNow ==
    IF embedding_model = "None" \/ faiss_index.isNone THEN InitFaultSets ELSE {{}}

\* What a step leaves alone when it writes neither a global nor a file.
ReadOnlyStep ==
    UNCHANGED <<phase, indexFile, contextFile, embedding_model, faiss_index,
                context_texts, initLog, reqBody, call, executed, http, loader, tableReq, frame, ui>>

\* The line a thread goes to with trace tr: the except clause when the
\* step raised.
Move(t, tr, next) ==
    inflight' = [inflight EXCEPT ![t] = [@ EXCEPT !.tr = tr,
                      !.pc = IF Raised(tr) THEN "except" ELSE next]]

\* The text the model answers a thread with.
ThreadResponses == {Plain(<<"S", "E", "L", "E", "C", "T", " ", "1", ";">>)}

\* A further call of initialize_rag_components in a serving process.
InitializeAgain ==
    /\ phase = "serving"
    /\ \E faults \in InitFaultsNow :
       \E r \in {initialize_rag_components(GlobalsNow, indexFile, contextFile, faults)} :
             /\ embedding_model' = r.g.embedding_model
             /\ faiss_index' = r.g.faiss_index
             /\ context_texts' = r.g.context_texts
             /\ initLog' = r.g.log
             /\ indexFile' = r.indexFile
             /\ contextFile' = r.contextFile
    /\ UNCHANGED <<phase, reqBody, call, executed, http, inflight, loader, tableReq, frame, ui>>

\* run.py line 61: a request thread calls get_sql_from_question.
Enter(t) ==
    /\ phase = "serving"
    /\ inflight[t].pc = "idle"
    /\ \E q \in Questions \ {<<>>} :
          inflight' = [inflight EXCEPT ![t] = [pc |-> "init", question |-> q, tr |-> NoCall]]
    /\ ReadOnlyStep

\* Lines 173-174.
ThInit(t) ==
    /\ inflight[t].pc = "init"
    /\ \E faults \in InitFaultsNow :
       \E ini \in {LazyInit(GlobalsNow, indexFile, contextFile, faults)} :
             /\ embedding_model' = ini.g.embedding_model
             /\ faiss_index' = ini.g.faiss_index
             /\ context_texts' = ini.g.context_texts
             /\ initLog' = ini.g.log
             /\ indexFile' = ini.indexFile
             /\ contextFile' = ini.contextFile
             /\ Move(t, Started(ini), "encode")
    /\ UNCHANGED <<phase, reqBody, call, executed, http, loader, tableReq, frame, ui>>

\* Line 177.
ThEncode(t) ==
    /\ inflight[t].pc = "encode"
    /\ \E fault \in {"none", "encode"} :
          Move(t, Encoded(inflight[t].tr, inflight[t].question, fault), "search")
    /\ ReadOnlyStep

\* Line 179.
ThSearch(t) ==
    /\ inflight[t].pc = "search"
    /\ \E fault \in {"none", "search"} :
          Move(t, Searched(inflight[t].tr, GlobalsNow, inflight[t].question, fault), "lookup")
    /\ ReadOnlyStep

\* Lines 181-184.
ThLookup(t) ==
    /\ inflight[t].pc = "lookup"
    /\ Move(t, LookedUp(inflight[t].tr, GlobalsNow), "prompt")
    /\ ReadOnlyStep

\* Lines 187-190.
ThPrompt(t) ==
    /\ inflight[t].pc = "prompt"
    /\ Move(t, Prompted(inflight[t].tr, GlobalsNow, inflight[t].question, "none"), "log")
    /\ ReadOnlyStep

\* Line 192.
ThLog(t) ==
    /\ inflight[t].pc = "log"
    /\ Move(t, Logged(inflight[t].tr), "generate")
    /\ ReadOnlyStep

\* Line 194.
ThGenerate(t) ==
    /\ inflight[t].pc = "generate"
    /\ \/ Move(t, Generated(inflight[t].tr, "model", <<>>), "extract")
       \/ \E response \in ThreadResponses :
             Move(t, Generated(inflight[t].tr, "none", response), "extract")
    /\ ReadOnlyStep

\* Lines 195-198.
ThExtract(t) ==
    /\ inflight[t].pc = "extract"
    /\ Move(t, Extracted(inflight[t].tr, "none"), "return")
    /\ ReadOnlyStep

\* Lines 199-201.
ThExcept(t) ==
    /\ inflight[t].pc = "except"
    /\ inflight' = [inflight EXCEPT ![t] = [@ EXCEPT !.tr = OnException(@), !.pc = "return"]]
    /\ ReadOnlyStep

\* The call returns to the handler.
ThReturn(t) ==
    /\ inflight[t].pc = "return"
    /\ inflight' = [inflight EXCEPT ![t] = Idle]
    /\ ReadOnlyStep

ThreadStep(t) ==
    \/ Enter(t) \/ ThInit(t) \/ ThEncode(t) \/ ThSearch(t) \/ ThLookup(t)
    \/ ThPrompt(t) \/ ThLog(t) \/ ThGenerate(t) \/ ThExtract(t) \/ ThExcept(t)
    \/ ThReturn(t)

ThreadNext ==
    ImportModule \/ InitializeAgain \/ Restart \/ \E t \in Threads : ThreadStep(t)

ThreadSpec == Init /\ [][ThreadNext]_vars

(***************************************************************************)
(* A run of dataload.py.                                                   *)
(***************************************************************************)
LoaderInit ==
    /\ phase = "import"
    /\ indexFile = Missing
    /\ contextFile = Missing
    /\ embedding_model = "None"
    /\ faiss_index = NoneIndex
    /\ context_texts = <<>>
    /\ initLog = <<>>
    /\ reqBody = [json |-> FALSE, hasQuestion |-> FALSE, question |-> <<>>]
    /\ call = NoCall
    /\ executed = <<>>
    /\ http = NoResponse
    /\ inflight = [t \in Threads |-> Idle]
    /\ \E d \in [1..Len(file_table_map) -> DatasetKinds] : loader = LoaderAt(0, d, {})
    /\ tableReq = NoTableReq
    /\ frame = NoFrame
    /\ ui = FirstPage

\* Lines 136-140: one turn of the loop over file_table_map.
ProcessFile ==
    /\ loader.pos < Len(file_table_map)
    /\ \E dbFault \in BOOLEAN :
          loader' = [loader EXCEPT
              !.pos = @ + 1,
              !.tables = IF loader.datasets[loader.pos + 1] = "missing" THEN @
                         ELSE load_and_upload(@, loader.datasets[loader.pos + 1],
                                              file_table_map[loader.pos + 1].table, dbFault)]
    /\ UNCHANGED <<phase, indexFile, contextFile, embedding_model, faiss_index,
                   context_texts, initLog, reqBody, call, executed, http, inflight,
                   tableReq, frame, ui>>

LoaderNext == ProcessFile

LoaderSpec == LoaderInit /\ [][LoaderNext]_vars

(***************************************************************************)
(* Requests for table data, on the database the loader fills.              *)
(***************************************************************************)
\* One GET /api/data/<table_name>, handled from start to end.
GetTableData ==
    /\ \E table_name \in TableNames :
       \E connFault \in (IF IsValidTable(table_name) THEN BOOLEAN ELSE {FALSE}) :
          tableReq' = get_table_data(table_name, loader.tables, connFault)
    /\ UNCHANGED <<phase, indexFile, contextFile, embedding_model, faiss_index,
                   context_texts, initLog, reqBody, call, executed, http, inflight,
                   loader, frame, ui>>

DataNext == ProcessFile \/ GetTableData

DataSpec == LoaderInit /\ [][DataNext]_vars

(***************************************************************************)
(* preprocess_df on the frame of one CSV file.                             *)
(***************************************************************************)
\* Line 124: pd.read_csv of a file of one column and one to MaxRows rows.
PreprocessInit ==
    /\ phase = "import"
    /\ indexFile = Missing
    /\ contextFile = Missing
    /\ embedding_model = "None"
    /\ faiss_index = NoneIndex
    /\ context_texts = <<>>
    /\ initLog = <<>>
    /\ reqBody = [json |-> FALSE, hasQuestion |-> FALSE, question |-> <<>>]
    /\ call = NoCall
    /\ executed = <<>>
    /\ http = NoResponse
    /\ inflight = [t \in Threads |-> Idle]
    /\ loader = LoaderAt(0, [i \in 1..Len(file_table_map) |-> "ok"], {})
    /\ tableReq = NoTableReq
    /\ ui = FirstPage
    /\ \E e \in 1..Len(file_table_map) :
       \E name \in HeaderNames :
       \E texts \in SeqsUpTo(CellTexts, MaxRows) \ {<<>>} :
          frame = [NoFrame EXCEPT !.table_name = file_table_map[e].table,
                                  !.df = Frame(name, ReadCsvColumn(texts))]

\* Line 127: df = preprocess_df(df, table_name)
Preprocess ==
    /\ ~frame.done
    /\ frame' = [frame EXCEPT !.out = preprocess_df(frame.df, frame.table_name),
                               !.done = TRUE]
    /\ UNCHANGED <<phase, indexFile, contextFile, embedding_model, faiss_index,
                   context_texts, initLog, reqBody, call, executed, http, inflight,
                   loader, tableReq, ui>>

PreprocessNext == Preprocess

PreprocessSpec == PreprocessInit /\ [][PreprocessNext]_vars

(***************************************************************************)
(* The Streamlit page: clicks of its two buttons.                          *)
(***************************************************************************)
UiInit ==
    /\ phase = "import"
    /\ indexFile = Missing
    /\ contextFile = Missing
    /\ embedding_model = "None"
    /\ faiss_index = NoneIndex
    /\ context_texts = <<>>
    /\ initLog = <<>>
    /\ reqBody = [json |-> FALSE, hasQuestion |-> FALSE, question |-> <<>>]
    /\ call = NoCall
    /\ executed = <<>>
    /\ http = NoResponse
    /\ inflight = [t \in Threads |-> Idle]
    /\ loader = LoaderAt(0, [i \in 1..Len(file_table_map) |-> "ok"], {})
    /\ tableReq = NoTableReq
    /\ frame = NoFrame
    /\ ui = FirstPage

\* Lines 108-156, then 163-187.
AskBot ==
    /\ Len(ui.session.chat_history) < MaxHistory
    /\ \E question \in UiQuestions :
       \E reply \in Replies(question) :
          ui' = Page([button |-> "ask", question |-> question, reply |-> reply],
                     ask_button(ui.session, question, reply))
    /\ UNCHANGED <<phase, indexFile, contextFile, embedding_model, faiss_index,
                   context_texts, initLog, reqBody, call, executed, http, inflight,
                   loader, tableReq, frame>>

\* Lines 158-161, then 163-187.
ClearHistory ==
    /\ ui' = Page([button |-> "clear", question |-> <<>>, reply |-> Refused],
                  clear_history_button(ui.session))
    /\ UNCHANGED <<phase, indexFile, contextFile, embedding_model, faiss_index,
                   context_texts, initLog, reqBody, call, executed, http, inflight,
                   loader, tableReq, frame>>

UiNext == AskBot \/ ClearHistory

UiSpec == UiInit /\ [][UiNext]_vars

(***************************************************************************)
(* Properties.                                                             *)
(***************************************************************************)
Range(s) == {s[i] : i \in 1..Len(s)}

\* The head of an error-flagged result: the marker, then "Error generating SQL:".
ErrorHead == GeminiMarker \o <<" ", "E", "r", "r", "o", "r", " ", "g", "e", "n", "e", "r", "a", "t", "i", "n", "g", " ", "S", "Q", "L", ":">>

\* C1: get_sql_from_question never raises; when a step of it throws, it
\* returns a string that starts with the error marker followed by
\* "Error generating SQL:".
C1_NeverRaises ==
    call.called =>
        /\ ~call.escaped
        /\ (Raised(call) => StartsWith(call.ret, ErrorHead))

\* The model call threw and the error string came back.
C1_Witness ==
    /\ call.called
    /\ call.exc.msg = MsgModel
    /\ call.sent # <<>>
    /\ StartsWith(call.ret, ErrorHead)

\* C2: with fewer documents than k = 3 in a loaded, consistent corpus, the
\* ids looked up are exactly the documents, each once, each in
\* 0..len(context_texts)-1, and the lookup raises nothing.
C2_PaddingNeverRendered ==
    (/\ call.searched = 1
     /\ call.indices # <<>>
     /\ Len(faiss_index.vecs) = Len(context_texts)
     /\ Len(context_texts) < TopK) =>
        /\ call.exc.class # "IndexError"
        /\ Len(call.lookups) = Len(context_texts)
        /\ \A i \in 1..Len(call.lookups) :
               call.lookups[i] \in 0..(Len(context_texts) - 1)
        /\ \A i, j \in 1..Len(call.lookups) :
               i # j => PyPosition(call.lookups[i], Len(context_texts))
                        # PyPosition(call.lookups[j], Len(context_texts))

\* C3: a pair the loader took from disk has as many texts as vectors.
C3_LoadedPairConsistent ==
    (phase = "serving" /\ "loaded" \in Range(initLog)) =>
        Len(context_texts) = Len(faiss_index.vecs)

\* C4: a request whose question is empty or only whitespace is answered 400
\* and reaches neither the encoder nor the index.
C4_BlankRejected ==
    (/\ http.status # 0
     /\ reqBody.json
     /\ reqBody.hasQuestion
     /\ Strip(reqBody.question) = <<>>) =>
        /\ http.status = 400
        /\ ~call.called
        /\ call.encoded = <<>>
        /\ call.searched = 0

IdentChars ==
    {"a", "b", "c", "d", "e", "f", "g", "h", "i", "j", "k", "l", "m", "n", "o",
     "p", "q", "r", "s", "t", "u", "v", "w", "x", "y", "z", "_"} \cup Range(Digit)

\* The longest identifier s starts with.
RECURSIVE Identifier(_)
Identifier(s) ==
    IF s # <<>> /\ Head(s) \in IdentChars
    THEN <<Head(s)>> \o Identifier(Tail(s))
    ELSE <<>>

\* The tables a statement names: the identifier after each FROM.
TablesNamed(sql) ==
    {Identifier(SubSeq(sql, o + 6, Len(sql))) :
        o \in {x \in 0..(Len(sql) - 5) :
                  SubSeq(sql, x + 1, x + 5) \in {<<"F", "R", "O", "M", " ">>,
                                                 <<"f", "r", "o", "m", " ">>}}}

\* C5: no statement naming a table outside VALID_TABLES is executed.
C5_OnlyAllowedTablesExecuted ==
    \A i \in 1..Len(executed) : TablesNamed(executed[i]) \subseteq VALID_TABLES

\* C6: a statement s answered inside a code fence, with or without
\* newlines, comes back as exactly s.
C6_FenceRemovedOnly ==
    \A s \in Statements :
        (~Raised(call) /\ call.response \in {FencedLines(s), FencedInline(s)}) =>
            call.ret = s

\* C7: an error-flagged result of get_sql_from_question is answered with
\* status 500 carrying that string and is not handed to the database.
C7_ErrorStringNotExecuted ==
    (call.called /\ Raised(call) /\ ~call.escaped) =>
        /\ http.status = 500
        /\ http.error = call.ret
        /\ executed = <<>>

\* The state after a rebuild from the hard-coded corpus.
RebuiltState ==
    /\ context_texts = knowledge_base_documents
    /\ Len(faiss_index.vecs) = Len(knowledge_base_documents)
    /\ \A i \in 1..Len(knowledge_base_documents) :
           faiss_index.vecs[i] = Encode(knowledge_base_documents[i])
    /\ indexFile = FileOf(WriteIndex(faiss_index.vecs))
    /\ contextFile = FileOf(JsonDump(knowledge_base_documents))

\* C8: when an artifact is missing or cannot be read, an initialisation that
\* returns leaves the index and the corpus rebuilt from the hard-coded
\* documents and both artifacts rewritten.
C8_RebuildOnLoadFailure ==
    [][(/\ phase = "import"
        /\ phase' = "serving"
        /\ (indexFile.kind # "ok" \/ contextFile.kind # "ok")) => RebuiltState']_vars

\* The index was read, the JSON was not, and the process serves.
C8_Witness ==
    /\ phase = "serving"
    /\ "load_failed" \in Range(initLog)
    /\ "saved" \in Range(initLog)
    /\ RebuiltState

\* The bullet lines of ids[i..], as the claim describes them.
RECURSIVE BulletLines(_, _, _)
BulletLines(texts, ids, i) ==
    IF i > Len(ids) THEN <<>>
    ELSE <<"-", " ">> \o PyIndex(texts, ids[i]) \o <<"\n">> \o BulletLines(texts, ids, i + 1)

\* C9: the prompt sent is the template with, in place of its one
\* placeholder, the header and one "- " line per search result in the order
\* of the search (nearest first), and after the whole template the question.
C9_PromptLayout ==
    call.sent # <<>> =>
        LET p == call.sent[1]
            q == reqBody.question
            block == ContextHeader \o BulletLines(context_texts, call.indices, 1)
            tail == QuestionLabel \o q \o SqlLabel
            qv == Encode(q)
            vecs == faiss_index.vecs
        IN  /\ Len(p) = TemplatePreLen + Len(block) + TemplatePostLen + Len(tail)
            /\ SubSeq(p, 1, TemplatePreLen)
                   = SubSeq(SYSTEM_PROMPT_TEMPLATE, 1, TemplatePreLen)
            /\ SubSeq(p, TemplatePreLen + 1, TemplatePreLen + Len(block)) = block
            /\ SubSeq(p, TemplatePreLen + Len(block) + 1,
                      TemplatePreLen + Len(block) + TemplatePostLen)
                   = SubSeq(SYSTEM_PROMPT_TEMPLATE, TemplatePreLen + 2,
                            Len(SYSTEM_PROMPT_TEMPLATE))
            /\ SubSeq(p, Len(p) - Len(tail) + 1, Len(p)) = tail
            /\ Placeholder \notin Range(p)
            /\ Len(call.indices) = TopK
            /\ \A i \in 1..(Len(call.indices) - 1) :
                   call.distances[i] =< call.distances[i + 1]
            /\ \A i \in 1..Len(call.indices) :
                   call.indices[i] >= 0 =>
                       /\ call.distances[i] = L2(vecs[call.indices[i] + 1], qv)
                       /\ \A j \in (0..(Len(vecs) - 1)) \ Range(call.indices) :
                              call.distances[i] =< L2(vecs[j + 1], qv)

\* A prompt went out whose three bullets are not in the order of their ids.
C9_Witness ==
    /\ call.sent # <<>>
    /\ ~Raised(call)
    /\ Len(context_texts) > TopK
    /\ \E i \in 1..(Len(call.indices) - 1) : call.indices[i] > call.indices[i + 1]

\* C10: the prompt handed to the model holds the whole question and the whole
\* text of every retrieved document; only the log line is cut at 500.
C10_NothingTruncated ==
    call.sent # <<>> =>
        LET p == call.sent[1]
        IN  /\ p = call.prompt
            /\ Contains(p, QuestionLabel \o reqBody.question \o SqlLabel)
            /\ \A i \in 1..Len(call.lookups) :
                   Contains(p, <<"-", " ">>
                               \o PyIndex(context_texts, call.lookups[i]) \o <<"\n">>)
            /\ call.logged = <<Prefix(p, LogCut)>>
            /\ Len(call.logged[1]) = LogCut
            /\ Len(p) > LogCut

\* The longest question was sent in a prompt longer than the log line.
C10_Witness ==
    /\ call.sent # <<>>
    /\ Len(reqBody.question) = 10
    /\ Len(call.lookups) = TopK
    /\ Len(call.sent[1]) > Len(call.logged[1])

\* C11: with at least k = 3 documents in the corpus, a retrieval returns
\* three ids of documents, all different, with non-decreasing distances,
\* and three bullets are rendered.
C11_ThreeDistinctResults ==
    (call.searched = 1 /\ call.indices # <<>> /\ Len(context_texts) >= TopK) =>
        /\ Len(call.indices) = TopK
        /\ \A i \in 1..Len(call.indices) :
               call.indices[i] \in 0..(Len(context_texts) - 1)
        /\ \A i, j \in 1..Len(call.indices) :
               i # j => call.indices[i] # call.indices[j]
        /\ \A i \in 1..(Len(call.indices) - 1) :
               call.distances[i] =< call.distances[i + 1]
        /\ Len(call.lookups) = TopK
        /\ call.sent # <<>> =>
               Count(SubSeq(call.sent[1], TemplatePreLen + 1,
                            Len(call.sent[1]) - TemplatePostLen
                              - Len(QuestionLabel \o reqBody.question \o SqlLabel)),
                     "-") = TopK

\* C12: in a serving process the encoder was loaded once and the index and
\* corpus were loaded or built once; from then on no step of any thread,
\* however the threads' get_sql_from_question calls interleave, and no
\* further call of initialize_rag_components changes embedding_model,
\* faiss_index or context_texts, and nothing more is loaded or built.
C12_InitialisedOnceThenReadOnly ==
    /\ [](phase = "serving" =>
            /\ embedding_model = "loaded"
            /\ ~faiss_index.isNone
            /\ Count(initLog, "load_model") = 1
            /\ Count(initLog, "loaded") + Count(initLog, "saved") = 1)
    /\ [][(phase = "serving" /\ phase' = "serving") =>
            /\ embedding_model' = embedding_model
            /\ faiss_index' = faiss_index
            /\ context_texts' = context_texts
            /\ initLog' = initLog]_vars

\* Two calls are in flight at different lines, one past its search and one
\* before it, in a process that built its index.
C12_Witness ==
    /\ phase = "serving"
    /\ "saved" \in Range(initLog)
    /\ inflight[1].pc = "generate"
    /\ inflight[1].tr.indices # <<>>
    /\ inflight[2].pc = "search"

\* C13: a step that changes faiss_index.bin or context_data.json is the
\* initialisation at import, taken before this process has handled any
\* question; handling a question writes neither file.
C13_ArtifactsWrittenAtImportOnly ==
    [][(indexFile' # indexFile \/ contextFile' # contextFile) =>
          /\ phase = "import"
          /\ ~call.called
          /\ http = NoResponse
          /\ \A t \in Threads : inflight[t] = Idle]_vars

\* Both artifacts were written by this process's import, and a question was
\* answered after that.
C13_Witness ==
    /\ phase = "serving"
    /\ "saved" \in Range(initLog)
    /\ indexFile = FileOf(WriteIndex(faiss_index.vecs))
    /\ contextFile = FileOf(JsonDump(context_texts))
    /\ call.called
    /\ http.status = 200

\* The encoder is loaded and the index was either loaded from the artifacts
\* or built and written to both of them.
Ready ==
    /\ embedding_model = "loaded"
    /\ ~faiss_index.isNone
    /\ \/ "loaded" \in Range(initLog)
       \/ /\ "saved" \in Range(initLog)
          /\ indexFile = FileOf(WriteIndex(faiss_index.vecs))
          /\ contextFile = FileOf(JsonDump(context_texts))

\* C14: the import raises exactly when it could not load the encoder or
\* could neither load nor build and persist the index; a process whose import
\* raised answers nothing, and every question is handled with encoder and
\* index in place.
C14_InitFailureIsFatal ==
    /\ [](phase = "serving" => Ready)
    /\ []((call.called \/ http.status # 0) => (phase = "serving" /\ Ready))
    /\ [][(phase = "import" /\ phase' # "import") =>
            (phase' = "failed" <=> ~Ready')]_vars

\* The embedding model could not be loaded: the import raised and nothing
\* is served.
C14_Witness ==
    /\ phase = "failed"
    /\ embedding_model = "None"
    /\ "load_model" \in Range(initLog)
    /\ faiss_index.isNone
    /\ http = NoResponse

\* C15: handling a request, whether it succeeds or fails, leaves the encoder,
\* the index and the corpus list as they were; and when the question of a
\* request is the question of the request before it, its search returns the
\* same ids with the same distances, and the same documents are looked up,
\* in the same order.
C15_RequestsIndependent ==
    [][(phase = "serving" /\ phase' = "serving") =>
          /\ embedding_model' = embedding_model
          /\ faiss_index' = faiss_index
          /\ context_texts' = context_texts
          /\ (/\ call.indices # <<>>
              /\ call'.indices # <<>>
              /\ reqBody'.question = reqBody.question) =>
                 /\ call'.indices = call.indices
                 /\ call'.distances = call.distances
                 /\ call'.lookups = call.lookups]_vars

\* A request failed in the model call, after its search, and the corpus and
\* the index are still the ones built at import.
C15_Witness ==
    /\ phase = "serving"
    /\ call.exc.msg = MsgModel
    /\ call.indices # <<>>
    /\ http.status = 500
    /\ context_texts = knowledge_base_documents
    /\ faiss_index = IndexOf(EncodeAll(knowledge_base_documents))

\* Query vectors to probe an index with: every vector the encoder can give.
Probes == (0..4) \X (0..3)

\* C16: a process started on the two artifacts a rebuild wrote loads them,
\* builds nothing, and has the documents of the rebuild in their order and
\* an index whose search gives, for every probe, the ids and distances the
\* index of the rebuild gives.
C16_PersistLoadRoundTrip ==
    [][(/\ phase = "import"
        /\ phase' = "serving"
        /\ indexFile = FileOf(WriteIndex(EncodeAll(knowledge_base_documents)))
        /\ contextFile = FileOf(JsonDump(knowledge_base_documents))) =>
          /\ initLog' = <<"load_model", "loading", "loaded">>
          /\ UNCHANGED <<indexFile, contextFile>>
          /\ context_texts' = knowledge_base_documents
          /\ \A q \in Probes :
                IndexSearch(faiss_index'.vecs, q, TopK)
                   = IndexSearch(EncodeAll(knowledge_base_documents), q, TopK)]_vars

\* A process serves on the artifacts that the process before it built.
C16_Witness ==
    /\ phase = "serving"
    /\ "loaded" \in Range(initLog)
    /\ Len(context_texts) = Len(knowledge_base_documents)
    /\ Len(faiss_index.vecs) = Len(knowledge_base_documents)
    /\ call.sent # <<>>

\* C17: one call of get_sql_from_question calls the encoder, the search and
\* generate_content at most once each; when one of them fails no later one
\* is called, and the call returns one error string, made from that failure.
C17_NoRetry ==
    call.called =>
        /\ call.inits =< 1
        /\ Len(call.encoded) =< 1
        /\ call.searched =< 1
        /\ Len(call.sent) =< 1
        /\ Len(call.logged) =< 1
        /\ call.exc.msg = MsgEncode =>
               (Len(call.encoded) = 1 /\ call.searched = 0 /\ call.sent = <<>>)
        /\ call.exc.msg = MsgSearch =>
               (Len(call.encoded) = 1 /\ call.searched = 1 /\ call.sent = <<>>)
        /\ call.exc.msg = MsgModel =>
               (Len(call.encoded) = 1 /\ call.searched = 1 /\ Len(call.sent) = 1)
        /\ Raised(call) =>
               (call.ret = ErrorString(call.exc.msg) /\ Len(executed) =< 1)

\* The search failed: the encoder and the search were called once, the
\* model was not, and the error string came back.
C17_Witness ==
    /\ call.called
    /\ call.exc.msg = MsgSearch
    /\ Len(call.encoded) = 1
    /\ call.searched = 1
    /\ call.sent = <<>>
    /\ call.ret = ErrorString(MsgSearch)

\* C18: every request is answered (200, 400 or 500), nothing leaves the
\* handler as an exception; a body that is no JSON and a statement the
\* database fails on are answered 500 with the error text; 200 is answered
\* only for a statement the database ran; and no request changes the
\* encoder, the index or the corpus list.
C18_HandlerFailuresAre500 ==
    /\ [](http.status # 0 =>
            /\ http.status \in {200, 400, 500}
            /\ ~reqBody.json =>
                   (http.status = 500 /\ http.error = MsgBody /\ executed = <<>>)
            /\ (executed # <<>> /\ executed[1] \notin Statements) =>
                   (http.status = 500 /\ http.error = MsgDb)
            /\ http.error = MsgDb => (http.status = 500 /\ executed # <<>>)
            /\ http.status = 200 =>
                   (http.error = <<>> /\ executed = <<http.sql>> /\ http.sql \in Statements))
    /\ [][(phase = "serving" /\ phase' = "serving") =>
            UNCHANGED <<embedding_model, faiss_index, context_texts>>]_vars

\* The database failed on a statement it would have run (the connection
\* failed): the request was answered 500.
C18_Witness ==
    /\ executed # <<>>
    /\ executed[1] \in Statements
    /\ http.status = 500
    /\ http.error = MsgDb
    /\ ~faiss_index.isNone

\* C19: a statement s answered without a code fence, bare or with
\* whitespace around it, comes back as exactly s.
C19_UnfencedKeptIntact ==
    \A s \in Statements :
        (~Raised(call) /\ call.response \in {Plain(s), Padded(s)}) =>
            call.ret = s

\* C20: after a run of the loader that found and uploaded every file, the
\* tables it made are the tables the backend allows and the tables the
\* prompt template names.
C20_LoaderTablesMatch ==
    (/\ loader.pos = Len(file_table_map)
     /\ Cardinality(loader.tables) = Len(file_table_map)) =>
        /\ loader.tables = VALID_TABLES
        /\ loader.tables = TemplateTables

\* C21: a request for a table outside VALID_TABLES is answered 400 with
\* "Invalid table name.", opens no connection and executes nothing; what is
\* executed is SELECT * FROM one of the three allowed names, the one asked for.
C21_OnlyAllowedTableQueried ==
    tableReq.status # 0 =>
        /\ tableReq.table_name \notin VALID_TABLES =>
               /\ tableReq.status = 400
               /\ tableReq.error = MsgInvalidTable
               /\ tableReq.connects = 0
               /\ tableReq.executed = <<>>
        /\ tableReq.executed # <<>> =>
               /\ tableReq.table_name \in VALID_TABLES
               /\ tableReq.connects = 1
               /\ tableReq.executed = <<SelectAll(tableReq.table_name)>>
        /\ tableReq.connects > 0 => tableReq.table_name \in VALID_TABLES

\* An allowed name followed by a second statement was asked for and refused.
C21_Witness ==
    /\ tableReq.status = 400
    /\ Len(tableReq.table_name) > 18
    /\ \E t \in VALID_TABLES : StartsWith(tableReq.table_name, t)
    /\ tableReq.connects = 0
    /\ tableReq.executed = <<>>

\* C22: after preprocess_df a column some of whose texts are no numbers
\* still has dtype object with its texts, unless all of them are dates
\* YYYY-MM-DD, and then it has dtype datetime and holds those dates; a
\* column is numeric only when every one of its texts was a number.
C22_TextColumnsKept ==
    (frame.done /\ frame.df.col.dtype = "object") =>
        LET in == frame.df.col.cells
            out == frame.out.col
            numbers == \A i \in 1..Len(in) : IsNumeral(Cleaned(in[i].v))
            dates == \A i \in 1..Len(in) : IsDate(in[i].v)
        IN  /\ IsNumericDtype(out.dtype) => numbers
            /\ dates =>
                  /\ out.dtype = "datetime64[ns]"
                  /\ \A i \in 1..Len(out.cells) :
                         \E j \in 1..Len(in) : out.cells[i] = Cell("datetime", in[j].v)
            /\ (~numbers /\ ~dates) =>
                  /\ out.dtype = "object"
                  /\ \A i \in 1..Len(out.cells) : out.cells[i].kind = "str"

\* C23: chat_history changes only when a click on Ask Bot with a question
\* that is not blank gets a response without the key 'error', which appends
\* exactly one entry holding that question, or when a click on Clear
\* History empties it; a blank question, a response with the key 'error',
\* a failed connection or a body that is no JSON leaves it as it was; and
\* the response shown is always the last entry of chat_history.
C23_HistoryChangesTwoWays ==
    /\ [][LET before == ui.session.chat_history
              after == ui'.session.chat_history
              click == ui'.click
              answered == /\ click.button = "ask"
                          /\ Strip(click.question) # <<>>
                          /\ click.reply.kind = "json"
                          /\ "error" \notin click.reply.data.keys
          IN  /\ answered =>
                    /\ Len(after) = Len(before) + 1
                    /\ SubSeq(after, 1, Len(before)) = before
                    /\ after[Len(after)].question = click.question
              /\ click.button = "clear" => after = <<>>
              /\ (click.button = "ask" /\ ~answered) => after = before
              /\ after # before => (answered \/ click.button = "clear")]_vars
    /\ [](LET history == ui.session.chat_history
          IN  IF history = <<>> THEN ~ui.latest.shown
              ELSE /\ ui.latest.shown
                   /\ ui.latest.answer = history[Len(history)].answer
                   /\ ui.latest.sql = history[Len(history)].sql
                   /\ ui.latest.data = history[Len(history)].data)

\* A second question was answered and is shown; the first entry is kept.
C23_Witness ==
    /\ ui.click.button = "ask"
    /\ ui.click.reply.kind = "json"
    /\ "error" \notin ui.click.reply.data.keys
    /\ Len(ui.session.chat_history) = 2
    /\ ui.session.chat_history[1].question # ui.session.chat_history[2].question
    /\ ui.latest.answer = ui.session.chat_history[2].answer

====
